---- MODULE Spec2Model ----
(***************************************************************************)
(* Volume-breakout strategy report (src/main.py).                          *)
(*                                                                         *)
(* One run of main(): the sidebar inputs are read, the daily series is     *)
(* fetched for the range extended by holding_period calendar days on both  *)
(* sides, process_holding annotates every bar with its exit and drops the  *)
(* bars without one, the frame is cut at end_date, calculate_data keeps    *)
(* the breakout bars, and either "No trades found." is shown or the table, *)
(* the summary statistics, the chart and the CSV download are produced.    *)
(*                                                                         *)
(* Dates are day numbers (day 0 is a Monday).  Prices and volumes are      *)
(* integers; every derived float is an exact fraction [num, den] in lowest *)
(* terms, and 0/0 stands for NaN, so comparisons with NaN are false and    *)
(* NaN propagates through arithmetic exactly as it does in pandas.         *)
(***************************************************************************)
EXTENDS Integers, Sequences, FiniteSets

\* ---------------------------------------------------------------- bounds
\* Largest holding period offered by the sidebar in this model (the form
\* accepts every integer >= 1).
MaxH == 2
\* Number of trailing bars of a fetched series whose volume and close vary
\* freely; the bars before them are flat.
MaxTail == 3

\* -------------------------------------------------------------- constants
\* rolling(window=20)
Window == 20

HoldingPeriods == 1..MaxH
\* Volume Threshold (X%): min_value 1.0, default 200.0
VolumeThresholds == {1, 100, 200}
\* Change Threshold (Y%): min_value 0.0, default 2.0
ChangeThresholds == {0, 2}
\* <<Start Date, End Date>> pairs picked in the sidebar: a weekend day alone,
\* a Monday-to-Friday range, a Monday-to-Monday range.
DateRanges == {<<12, 12>>, <<7, 32>>, <<7, 35>>}
\* Markets the loader serves: seven-day (BTC-USD, the default ticker),
\* Monday-to-Friday (equities), and a symbol with no data at all.
Calendars == {"daily", "weekdays", "nodata"}
\* Volume and close of a flat bar, and of the freely chosen trailing bars.
BaseBar == [Volume |-> 10, Close |-> 50]
Profiles == {[Volume |-> v, Close |-> c] : v \in {10, 30}, c \in {50, 51}}

VARIABLES
    pc,                \* position of main()
    run,               \* 1 in a run of main; 2 when the pipeline is run again
    start_date,        \* main: start_date (shifted back at line 121)
    end_date,          \* main: end_date
    holding_period,    \* main: holding_period
    volume_threshold,  \* main: volume_threshold
    change_threshold,  \* main: change_threshold
    series,            \* the bars as the loader returned them
    frame,             \* the DataFrame object fetch() returned (mutated in place)
    visible,           \* main line 127: data[data["Date"] <= end_date]
    trades,            \* main line 128: calculate_data(...)
    stats,             \* main lines 136-147: mean return, win rate, total
    shown,             \* what the page shows so far
    report1            \* the report of the first run, kept when run again

vars == <<pc, run, start_date, end_date, holding_period, volume_threshold,
          change_threshold, series, frame, visible, trades, stats, shown,
          report1>>

\* ------------------------------------------------------------- arithmetic
Abs(a) == IF a < 0 THEN -a ELSE a
Min(a, b) == IF a < b THEN a ELSE b
Max(a, b) == IF a < b THEN b ELSE a

RECURSIVE GCD(_, _)
GCD(a, b) == IF b = 0 THEN a ELSE GCD(b, a % b)

Sign(a) == IF a > 0 THEN 1 ELSE IF a < 0 THEN -1 ELSE 0

\* The float num/den: lowest terms, den > 0; x/0 is +-inf and 0/0 is NaN.
Frac(num, den) ==
    IF den = 0 THEN [num |-> Sign(num), den |-> 0]
    ELSE LET g == GCD(Abs(num), Abs(den))
             s == Sign(den)
         IN  [num |-> s * (num \div g), den |-> s * (den \div g)]

Num(a) == [num |-> a, den |-> 1]
NaN == [num |-> 0, den |-> 0]
IsNaN(x) == x.num = 0 /\ x.den = 0
IsFinite(x) == x.den # 0

Sub(x, y) ==
    IF IsFinite(x) /\ IsFinite(y)
    THEN Frac(x.num * y.den - y.num * x.den, x.den * y.den)
    ELSE IF IsNaN(x) \/ IsNaN(y) \/ x = y THEN NaN
    ELSE IF IsFinite(y) THEN x ELSE [num |-> -(y.num), den |-> 0]
Add(x, y) == Sub(x, [num |-> -(y.num), den |-> y.den])
Mul(x, y) ==
    IF IsNaN(x) \/ IsNaN(y) THEN NaN
    ELSE Frac(x.num * y.num, x.den * y.den)
Div(x, y) ==
    IF IsNaN(x) \/ IsNaN(y) THEN NaN
    ELSE IF y.den = 0 THEN (IF x.den = 0 THEN NaN ELSE Num(0))
    ELSE IF y.num = 0 THEN [num |-> Sign(x.num), den |-> 0]
    ELSE Frac(x.num * y.den * Sign(y.num), x.den * Abs(y.num))
\* x > y and x >= y on floats: false as soon as one side is NaN.
Gt(x, y) ==
    /\ ~IsNaN(x) /\ ~IsNaN(y)
    /\ IF IsFinite(x) /\ IsFinite(y) THEN x.num * y.den > y.num * x.den
       ELSE IF IsFinite(x) THEN y.num < 0
       ELSE IF IsFinite(y) THEN x.num > 0
       ELSE x.num > y.num
Ge(x, y) == ~IsNaN(x) /\ ~IsNaN(y) /\ (x = y \/ Gt(x, y))

RECURSIVE SumTo(_, _)
SumTo(col, n) == IF n = 0 THEN Num(0) ELSE Add(SumTo(col, n - 1), col[n])
\* Series.mean(): NaN on an empty column.
Mean(col) == Div(SumTo(col, Len(col)), Num(Len(col)))

\* ----------------------------------------------------------------- pandas
\* Series.shift(periods): row i takes the value of row i - periods, NaN
\* where that row does not exist.
Shift(col, periods) ==
    [i \in 1..Len(col) |->
        IF i - periods \in 1..Len(col) THEN col[i - periods] ELSE NaN]

CloseOf(data) == [i \in 1..Len(data) |-> Num(data[i].Close)]
VolumeOf(data) == [i \in 1..Len(data) |-> Num(data[i].Volume)]

\* Mutant of ReturnPct: the return left as a fraction, not a percentage.
ReturnFraction(sell, close) == Div(Sub(sell, close), close)

\* ((Close.shift(-holding_period) - Close) / Close) * 100
ReturnPct(sell, close) == Mul(Div(Sub(sell, close), close), Num(100))

\* Mutant of dropna: the bars without an exit are kept, null-filled.
dropna_keeps_nulls(data) == data

\* data.dropna(subset=["Return %"], inplace=True)
dropna(data) == SelectSeq(data, LAMBDA row : ~IsNaN(row.ReturnPct))

process_holding(data, H) ==
    LET close == CloseOf(data)
        sell  == Shift(close, -H)
        prev  == Shift(close, 1)
    IN  dropna([i \in 1..Len(data) |->
            [Date          |-> data[i].Date,
             Close         |-> data[i].Close,
             Volume        |-> data[i].Volume,
             SellDate      |-> data[i].Date + H,
             SellPrice     |-> sell[i],
             PreviousClose |-> prev[i],
             ReturnPct     |-> ReturnPct(sell[i], close[i])]])

\* Sum of col[lo..hi] of an integer column (Volume is int64).
RECURSIVE WindowSum(_, _, _)
WindowSum(col, lo, hi) ==
    IF hi < lo THEN 0 ELSE col[hi].num + WindowSum(col, lo, hi - 1)

\* Mutant of RollingMean: min_periods=1, the mean of the bars seen so far.
RollingMeanMinPeriods1(col, window) ==
    [i \in 1..Len(col) |->
        Frac(WindowSum(col, Max(1, i - window + 1), i), Min(i, window))]

\* Series.rolling(window).mean(): NaN until the window is full
\* (min_periods defaults to the window), then the mean of the last
\* `window` values, the current one included.
RollingMean(col, window) ==
    [i \in 1..Len(col) |->
        IF i < window THEN NaN
        ELSE Frac(WindowSum(col, i - window + 1, i), window)]

\* Series.pct_change(): col / col.shift(1) - 1, a fraction, not a percentage.
PctChange(col) ==
    LET prev == Shift(col, 1)
    IN  [i \in 1..Len(col) |-> Sub(Div(col[i], prev[i]), Num(1))]

\* Mutant of VolBreakout: the price change compared strictly.
VolBreakoutStrictChange(volume, avg, change, V, C) ==
    /\ Gt(volume, Mul(avg, Frac(V, 100)))
    /\ Gt(change, Frac(C, 100))

\* (Volume > Avg Vol * (volume_threshold / 100)) &
\* (Close.pct_change() >= change_threshold / 100)
VolBreakout(volume, avg, change, V, C) ==
    /\ Gt(volume, Mul(avg, Frac(V, 100)))
    /\ Ge(change, Frac(C, 100))

calculate_data(data, V, C) ==
    LET avg    == RollingMean(VolumeOf(data), Window)
        change == PctChange(CloseOf(data))
        volume == VolumeOf(data)
        flagged == [i \in 1..Len(data) |->
            [Date          |-> data[i].Date,
             Close         |-> data[i].Close,
             Volume        |-> data[i].Volume,
             SellDate      |-> data[i].SellDate,
             SellPrice     |-> data[i].SellPrice,
             PreviousClose |-> data[i].PreviousClose,
             ReturnPct     |-> data[i].ReturnPct,
             AvgVol        |-> avg[i],
             VolBreakout   |-> VolBreakout(volume[i], avg[i], change[i], V, C)]]
    IN  SelectSeq(flagged, LAMBDA row : row.VolBreakout)

\* Mutant of EndDateFilter: the bar dated end_date is cut as well.
EndDateFilterExclusive(data, end) == SelectSeq(data, LAMBDA row : row.Date < end)

\* data[data["Date"] <= pd.Timestamp(end_date)]
EndDateFilter(data, end) == SelectSeq(data, LAMBDA row : row.Date <= end)

\* Mutant of empty: a test that an empty frame does not pass (is None).
empty_is_none(data) == FALSE

\* DataFrame.empty
empty(data) == Len(data) = 0

\* Mutant of WinRate: a trade with a return of exactly 0 counts as a win.
WinRateCountsZero(data) ==
    Mul(Div(Num(Len(SelectSeq(data, LAMBDA row : Ge(row.ReturnPct, Num(0))))),
            Num(Len(data))),
        Num(100))

\* len(data[data['Return %'] > 0]) / len(data) * 100
WinRate(data) ==
    Mul(Div(Num(Len(SelectSeq(data, LAMBDA row : Gt(row.ReturnPct, Num(0))))),
            Num(Len(data))),
        Num(100))

\* data['Return %'].mean()
MeanReturn(data) == Mean([i \in 1..Len(data) |-> data[i].ReturnPct])

\* data['index'] = data.index (0-based after reset_index)
generate_charts(data) ==
    [i \in 1..Len(data) |->
        [Date          |-> data[i].Date,
         Close         |-> data[i].Close,
         Volume        |-> data[i].Volume,
         SellDate      |-> data[i].SellDate,
         SellPrice     |-> data[i].SellPrice,
         PreviousClose |-> data[i].PreviousClose,
         ReturnPct     |-> data[i].ReturnPct,
         AvgVol        |-> data[i].AvgVol,
         VolBreakout   |-> data[i].VolBreakout,
         index         |-> i - 1]]

\* ----------------------------------------------------------------- loader
IsTradingDay(calendar, d) ==
    \/ calendar = "daily"
    \/ calendar = "weekdays" /\ d % 7 < 5

\* The dates the loader returns for [lo, hi]: ascending, unique, one bar for
\* every trading day of the range, both ends included.
TradingDays(calendar, lo, hi) ==
    SelectSeq([i \in 1..Max(0, hi - lo + 1) |-> lo + i - 1],
              LAMBDA d : IsTradingDay(calendar, d))

\* A series on the given dates: flat bars followed by the tail.
SeriesOn(days, tail) ==
    LET n == Len(days)
        k == Len(tail)
    IN  [i \in 1..n |->
            [Date   |-> days[i],
             Close  |-> IF i > n - k THEN tail[i - (n - k)].Close ELSE BaseBar.Close,
             Volume |-> IF i > n - k THEN tail[i - (n - k)].Volume ELSE BaseBar.Volume]]

NoStats == [computed |-> FALSE, mean_return |-> NaN, win_rate |-> NaN, total |-> 0]

\* ------------------------------------------------------------------ main
Init ==
    /\ pc = "sidebar"
    /\ run = 1
    /\ \E r \in DateRanges : start_date = r[1] /\ end_date = r[2]
    /\ holding_period \in HoldingPeriods
    /\ volume_threshold \in VolumeThresholds
    /\ change_threshold \in ChangeThresholds
    /\ series = <<>>
    /\ frame = <<>>
    /\ visible = <<>>
    /\ trades = <<>>
    /\ stats = NoStats
    /\ shown = {}
    /\ report1 = [trades |-> <<>>, stats |-> NoStats, shown |-> {}]

\* lines 121-124: start_date is shifted back and the series is fetched for
\* [start_date - H, end_date + H].
Fetch ==
    /\ pc = "sidebar"
    /\ \E calendar \in Calendars :
         LET days == TradingDays(calendar, start_date - holding_period,
                                 end_date + holding_period)
         IN  \E tail \in [1..Min(MaxTail, Len(days)) -> Profiles] :
                /\ series' = SeriesOn(days, tail)
                /\ frame' = series'
    /\ start_date' = start_date - holding_period
    /\ pc' = "fetched"
    /\ UNCHANGED <<run, end_date, holding_period, volume_threshold,
                   change_threshold, visible, trades, stats, shown, report1>>

\* line 126: the fetched frame itself is annotated and shortened.
ProcessHolding ==
    /\ pc = "fetched"
    /\ frame' = process_holding(frame, holding_period)
    /\ pc' = "projected"
    /\ UNCHANGED <<run, start_date, end_date, holding_period, volume_threshold,
                   change_threshold, series, visible, trades, stats, shown,
                   report1>>

\* line 127
FilterEndDate ==
    /\ pc = "projected"
    /\ visible' = EndDateFilter(frame, end_date)
    /\ pc' = "filtered"
    /\ UNCHANGED <<run, start_date, end_date, holding_period, volume_threshold,
                   change_threshold, series, frame, trades, stats, shown,
                   report1>>

\* line 128
CalculateData ==
    /\ pc = "filtered"
    /\ trades' = calculate_data(visible, volume_threshold, change_threshold)
    /\ pc' = "calculated"
    /\ UNCHANGED <<run, start_date, end_date, holding_period, volume_threshold,
                   change_threshold, series, frame, visible, stats, shown,
                   report1>>

\* lines 130-132
NoTradesFound ==
    /\ pc = "calculated"
    /\ empty(trades)
    /\ shown' = shown \cup {"No trades found."}
    /\ pc' = "returned"
    /\ UNCHANGED <<run, start_date, end_date, holding_period, volume_threshold,
                   change_threshold, series, frame, visible, trades, stats,
                   report1>>

\* line 134
ShowDataframe ==
    /\ pc = "calculated"
    /\ ~empty(trades)
    /\ shown' = shown \cup {"dataframe"}
    /\ pc' = "table"
    /\ UNCHANGED <<run, start_date, end_date, holding_period, volume_threshold,
                   change_threshold, series, frame, visible, trades, stats,
                   report1>>

\* lines 136-147
Summarise ==
    /\ pc = "table"
    /\ stats' = [computed    |-> TRUE,
                 mean_return |-> MeanReturn(trades),
                 win_rate    |-> WinRate(trades),
                 total       |-> Len(trades)]
    /\ pc' = "summarised"
    /\ UNCHANGED <<run, start_date, end_date, holding_period, volume_threshold,
                   change_threshold, series, frame, visible, trades, shown,
                   report1>>

\* line 148: generate_charts adds the index column to the frame it is given
\* (line 35) and draws the chart.
GenerateCharts ==
    /\ pc = "summarised"
    /\ trades' = generate_charts(trades)
    /\ shown' = shown \cup {"chart"}
    /\ pc' = "charted"
    /\ UNCHANGED <<run, start_date, end_date, holding_period, volume_threshold,
                   change_threshold, series, frame, visible, stats, report1>>

\* line 149
DownloadButton ==
    /\ pc = "charted"
    /\ shown' = shown \cup {"csv"}
    /\ pc' = "finished"
    /\ UNCHANGED <<run, start_date, end_date, holding_period, volume_threshold,
                   change_threshold, series, frame, visible, trades, stats,
                   report1>>

Next ==
    \/ Fetch
    \/ ProcessHolding
    \/ FilterEndDate
    \/ CalculateData
    \/ NoTradesFound
    \/ ShowDataframe
    \/ Summarise
    \/ GenerateCharts
    \/ DownloadButton

Spec == Init /\ [][Next]_vars

\* The pipeline of lines 126-128 entered a second time with the same
\* parameters on the DataFrame object the first run was given.
RunAgain ==
    /\ pc \in {"returned", "finished"}
    /\ run = 1
    /\ report1' = [trades |-> trades, stats |-> stats, shown |-> shown]
    /\ run' = 2
    /\ visible' = <<>>
    /\ trades' = <<>>
    /\ stats' = NoStats
    /\ shown' = {}
    /\ pc' = "fetched"
    /\ UNCHANGED <<start_date, end_date, holding_period, volume_threshold,
                   change_threshold, series, frame>>

NextTwice ==
    \/ Next
    \/ RunAgain

SpecTwice == Init /\ [][NextTwice]_vars

\* ================================================================ claims
\* The Date, Close and Volume of every row: the bars of a frame.
Bars(data) ==
    [i \in 1..Len(data) |->
        [Date |-> data[i].Date, Close |-> data[i].Close, Volume |-> data[i].Volume]]

\* Position (1-based) of the bar dated d in a frame; dates are unique.
PosOf(data, d) == CHOOSE i \in 1..Len(data) : data[i].Date = d
HasDate(data, d) == \E i \in 1..Len(data) : data[i].Date = d

RECURSIVE VolumeSum(_, _, _)
VolumeSum(data, lo, hi) ==
    IF hi < lo THEN 0 ELSE data[hi].Volume + VolumeSum(data, lo, hi - 1)

\* process_holding has just returned: frame is its result and series the
\* bars it was given.
Projected == pc = "projected"
\* calculate_data has just returned: trades is its result and visible the
\* frame it was given.
Calculated == pc = "calculated"
\* The run is past calculate_data.
Decided == pc \in {"calculated", "returned", "table", "summarised", "charted", "finished"}

\* C1: process_holding returns exactly the first max(0, n - H) bars of the
\* series it was given, in order; no kept bar has a null exit; a series of
\* fewer than H + 1 bars gives an empty frame.
C1_DropsExactlyLastH ==
    Projected =>
        /\ Bars(frame) = SubSeq(series, 1, Max(0, Len(series) - holding_period))
        /\ \A i \in 1..Len(frame) :
              ~IsNaN(frame[i].SellPrice) /\ ~IsNaN(frame[i].ReturnPct)
        /\ Len(series) < holding_period + 1 => frame = <<>>

C1_Witness ==
    /\ pc = "projected"
    /\ Len(series) > holding_period
    /\ Len(frame) = Len(series) - holding_period

\* C2: every retained bar at position i has sell_price = close[i+H] and
\* return_pct = (close[i+H] - close[i]) / close[i] * 100.
C2_SellPriceAndReturn ==
    Projected =>
        \A r \in 1..Len(frame) :
            /\ HasDate(series, frame[r].Date)
            /\ LET i == PosOf(series, frame[r].Date)
               IN  /\ i + holding_period <= Len(series)
                   /\ frame[r].SellPrice = Num(series[i + holding_period].Close)
                   /\ frame[r].ReturnPct =
                        Frac((series[i + holding_period].Close - series[i].Close) * 100,
                             series[i].Close)

C2_Witness ==
    /\ pc = "projected"
    /\ \E r \in 1..Len(frame) :
          /\ frame[r].SellPrice # Num(frame[r].Close)
          /\ frame[r].ReturnPct.num < 0

\* C3: every retained bar at position i has sell_date = date[i+H], the date
\* of the bar H positions later, also when the dates have gaps.
C3_SellDateIsPositional ==
    Projected =>
        \A r \in 1..Len(frame) :
            /\ HasDate(series, frame[r].Date)
            /\ LET i == PosOf(series, frame[r].Date)
               IN  /\ i + holding_period <= Len(series)
                   /\ frame[r].SellDate = series[i + holding_period].Date

\* The breakout condition of bar i of a frame, in integers: a full 20-bar
\* window, volume strictly above V/100 times its mean, change at least C %.
C4_Flagged(data, i, V, C) ==
    /\ i >= Window
    /\ i >= 2
    /\ data[i].Volume * Window * 100 > VolumeSum(data, i - Window + 1, i) * V
    /\ (data[i].Close - data[i - 1].Close) * 100 >= C * data[i - 1].Close

\* C4: calculate_data returns exactly the bars i with
\* volume[i] > avg_vol[i] * V/100 (strict) and pct_change[i] >= C (inclusive),
\* in their original order.
C4_ExactlyBreakoutBars ==
    Calculated =>
        Bars(trades) =
            Bars(SelectSeq(visible,
                LAMBDA row : C4_Flagged(visible, PosOf(visible, row.Date),
                                        volume_threshold, change_threshold)))

C4_Witness ==
    /\ pc = "calculated"
    /\ change_threshold = 2
    /\ volume_threshold = 100
    /\ Len(trades) >= 1
    /\ \E t \in 1..Len(trades) :
          LET i == PosOf(visible, trades[t].Date)
          IN  (visible[i].Close - visible[i - 1].Close) * 100
                  = change_threshold * visible[i - 1].Close
    /\ \E i \in Window..Len(visible) :
          /\ visible[i].Volume * Window = VolumeSum(visible, i - Window + 1, i)
          /\ ~HasDate(trades, visible[i].Date)

\* C5: no bar at zero-indexed position < 19 of the frame given to
\* calculate_data is in its output, whatever the thresholds.
C5_NoBreakoutBeforeWindow ==
    Calculated =>
        \A t \in 1..Len(trades) :
            /\ HasDate(visible, trades[t].Date)
            /\ PosOf(visible, trades[t].Date) - 1 >= Window - 1

C5_Witness ==
    /\ pc = "calculated"
    /\ volume_threshold = 1
    /\ change_threshold = 0
    /\ Len(visible) >= Window
    /\ Len(trades) = Len(visible) - (Window - 1)

\* C6: a run with zero trades ends in "No trades found." and shows nothing
\* else and computes no statistics; the table, the statistics, the chart and
\* the CSV download are reached only with at least one trade.
C6_NoTradesShortCircuit ==
    /\ (Decided /\ Len(trades) = 0) =>
          /\ pc \in {"calculated", "returned"}
          /\ ~stats.computed
          /\ shown \subseteq {"No trades found."}
          /\ pc = "calculated" => ENABLED NoTradesFound /\ ~ENABLED ShowDataframe
    /\ pc = "returned" => Len(trades) = 0 /\ shown = {"No trades found."}
    /\ (stats.computed \/ shown \cap {"dataframe", "chart", "csv"} # {}
            \/ pc \in {"table", "summarised", "charted", "finished"}) =>
          Len(trades) >= 1

C6_Witness ==
    /\ pc = "returned"
    /\ Len(series) >= Window + holding_period
    /\ shown = {"No trades found."}

\* C7: every bar of the fetched series dated within [start_date, end_date]
\* has a bar H positions ahead in the fetched series and is retained by
\* process_holding.  (start_date was shifted back by H at line 121.)
C7_VisibleBarsHaveExit ==
    pc \notin {"sidebar", "fetched"} =>
        \A i \in 1..Len(series) :
            (start_date + holding_period <= series[i].Date /\ series[i].Date <= end_date) =>
                /\ i + holding_period <= Len(series)
                /\ HasDate(frame, series[i].Date)

\* C8: the pipeline leaves the fetched series unchanged, and run a second
\* time with the same parameters on the same series it yields the same
\* report.
C8_SecondRunSameReport ==
    /\ pc # "sidebar" => Bars(frame) = series
    /\ (run = 2 /\ pc \in {"returned", "finished"}) =>
          report1 = [trades |-> trades, stats |-> stats, shown |-> shown]

\* C9: the win rate is (number of trades with return_pct > 0) / trade_count
\* * 100 with trade_count >= 1, lies in [0, 100], and a trade whose return is
\* exactly 0 is not a win.
C9_WinRate ==
    stats.computed =>
        LET wins == Cardinality({t \in 1..Len(trades) : trades[t].ReturnPct.num > 0})
        IN  /\ Len(trades) >= 1
            /\ stats.total = Len(trades)
            /\ stats.win_rate = Frac(wins * 100, Len(trades))
            /\ stats.win_rate.den > 0
            /\ 0 <= stats.win_rate.num
            /\ stats.win_rate.num <= 100 * stats.win_rate.den

C9_Witness ==
    /\ pc = "summarised"
    /\ \E t \in 1..Len(trades) : trades[t].ReturnPct = Num(0)
    /\ \E t \in 1..Len(trades) : trades[t].ReturnPct.num > 0
    /\ \E t \in 1..Len(trades) : trades[t].ReturnPct.num < 0

\* The date and the trailing average volume of every row.
C10_Detected(data) ==
    [i \in 1..Len(data) |-> [Date |-> data[i].Date, AvgVol |-> data[i].AvgVol]]

\* C10: every trade is dated <= end_date, no bar past end_date reaches the
\* detector, and cutting the frame at end_date before the detector gives
\* the same trades, with the same rolling average, as running the detector
\* on the uncut frame and cutting afterwards.
C10_TradesWithinEndDate ==
    /\ pc \notin {"sidebar", "fetched", "projected"} =>
          \A i \in 1..Len(visible) : visible[i].Date <= end_date
    /\ Decided => \A t \in 1..Len(trades) : trades[t].Date <= end_date
    /\ Calculated =>
             C10_Detected(trades) =
               C10_Detected(SelectSeq(
                   calculate_data(frame, volume_threshold, change_threshold),
                   LAMBDA row : row.Date <= end_date))

C10_Witness ==
    /\ pc = "calculated"
    /\ \E i \in 1..Len(series) : series[i].Date > end_date
    /\ \E t \in 1..Len(trades) : trades[t].Date = end_date

====
